---- MODULE Spec2Model ----
(***************************************************************************)
(* IMS - Install My Stuff (src/ims/ims.py).                                *)
(*                                                                         *)
(* The tool is run once per command.  Every run loads the two JSON logs    *)
(* (uncommitted.json, committed.json) into IMSData, performs one command   *)
(* and rewrites the logs it changed.  One action of the model is one run   *)
(* of the tool; SpecKill and SpecInstances run it statement by statement,  *)
(* where a run can be killed and two runs can interleave.                  *)
(*                                                                         *)
(* Python values are modelled as follows.                                  *)
(*   str            a TLA+ string; a package specification, which the code *)
(*                  splits at its first ":", is a sequence of its pieces   *)
(*                  with ":" a piece of its own, and so is a package name  *)
(*   Optional[str]  << >> for None, <<s>> for the string s                 *)
(*   list           a sequence                                             *)
(*   dict (event)   a record with the keys the code writes                 *)
(*   dict (replay)  a sequence of [key, value] pairs in insertion order    *)
(*   datetime.now() the integer clock, read once per stamped event         *)
(***************************************************************************)
EXTENDS Integers, Sequences, FiniteSets, TLC

\* Number of clock readings (stamped events) in one behaviour.
MaxDate == 3

\* Length of the committed / uncommitted logs the replay is applied to in SpecReplay.
MaxCommittedLen == 3
MaxUncommittedLen == 1
MaxPending == 3

VARIABLES
    committed_file,     \* committed.json on disk
    uncommitted_file,   \* uncommitted.json on disk
    committed,          \* IMSData.committed of the last run
    uncommitted,        \* IMSData.uncommitted of the last run
    config,             \* Config.config
    clock,              \* the last value datetime.now() returned
    last,               \* the last run: its command line, what it printed, its exit status
    packages,           \* what get_packages_at_tag returned in the last run
    ims                 \* the instances of the tool that are run statement by statement

vars == <<committed_file, uncommitted_file, committed, uncommitted, config, clock, last,
          packages, ims>>

None == << >>

Some(s) == <<s>>

\* Python truthiness of an Optional[str]: None and "" are false.
truthy(tag) == tag # None /\ tag[1] # ""

----------------------------------------------------------------------------
(* Config *)

default_config ==
    [ default_package_manager |-> "apt",
      package_managers |->
        [ apt     |-> [ install   |-> <<"sudo", "apt", "install", "-y">>,
                        uninstall |-> <<"sudo", "apt", "remove", "-y">> ],
          flatpak |-> [ install   |-> <<"flatpak", "install", "-y">>,
                        uninstall |-> <<"flatpak", "uninstall", "-y">> ],
          pip     |-> [ install   |-> <<"pip", "install">>,
                        uninstall |-> <<"pip", "uninstall", "-y">> ] ] ]

\* A configuration file the user wrote, which load_config returns as it is when it
\* has every top-level key: one manager, with no "uninstall" command.
user_config ==
    [ default_package_manager |-> "snap",
      package_managers |->
        [ snap |-> [ install |-> <<"snap", "install">> ] ] ]

load_config == {default_config, user_config}

----------------------------------------------------------------------------
(* IMSData *)

absent_file == [exists |-> FALSE, valid |-> FALSE, data |-> << >>]

\* load_json_file: the decoded list, or [] when the file does not exist or does not
\* hold JSON (JSONDecodeError).
load_json_file(file) == IF file.exists /\ file.valid THEN file.data ELSE << >>

\* save_json_file: the file is opened for writing and the whole list dumped.
save_json_file(data) == [exists |-> TRUE, valid |-> TRUE, data |-> data]

\* The file after open(file_path, 'w') and before json.dump has written the list and
\* the file is closed: it exists and holds nothing, or a part of the text.
truncated_file == [exists |-> TRUE, valid |-> FALSE, data |-> << >>]

----------------------------------------------------------------------------
(* IMS.get_package_manager_command *)

RECURSIVE find(_, _, _)
\* str.find from position i: the first position of piece c in s, 0 when there is none.
find(s, c, i) ==
    IF i > Len(s) THEN 0
    ELSE IF s[i] = c THEN i
    ELSE find(s, c, i + 1)

\* package_spec.split(':', 1) when ':' is in package_spec, else the default manager.
split_spec(cfg, package_spec) ==
    LET k == find(package_spec, ":", 1) IN
    IF k # 0
    THEN [ pm_id        |-> SubSeq(package_spec, 1, k - 1),
           package_name |-> SubSeq(package_spec, k + 1, Len(package_spec)) ]
    ELSE [ pm_id        |-> <<cfg.default_package_manager>>,
           package_name |-> package_spec ]

\* Each argv token of a configured command, as a string of one piece.
argv(template) == [i \in 1..Len(template) |-> <<template[i]>>]

\* The command of cmd_id for the manager named in package_spec, or the sys.exit(1)
\* the lookup ends in.
get_package_manager_command(cfg, package_spec, cmd_id) ==
    LET p == split_spec(cfg, package_spec)
        known == Len(p.pm_id) = 1 /\ p.pm_id[1] \in DOMAIN cfg.package_managers
    IN
    IF known
    THEN IF cmd_id \in DOMAIN cfg.package_managers[p.pm_id[1]]
         THEN [ exit |-> 0, pm_command |-> argv(cfg.package_managers[p.pm_id[1]][cmd_id]),
                pm_name |-> p.pm_id, package_name |-> p.package_name ]
         ELSE [ exit |-> 1, out |-> "Unknown command id" ]
    ELSE [ exit |-> 1, out |-> "Unknown package manager ID" ]

----------------------------------------------------------------------------
(* The entries the commands write *)

\* install_entry with the state of a pending install whatever commit_immediately is.
install_entry_always_pending(package_name, pm_name, cmd, date, commit_immediately) ==
    [ action |-> "install", package_name |-> package_name,
      package_manager_name |-> pm_name, package_manager_command |-> cmd,
      date |-> date, state |-> "uncommitted" ]

install_entry(package_name, pm_name, cmd, date, commit_immediately) ==
    [ action |-> "install", package_name |-> package_name,
      package_manager_name |-> pm_name, package_manager_command |-> cmd,
      date |-> date,
      state |-> IF commit_immediately THEN "committed" ELSE "uncommitted" ]

remove_entry(package_name, pm_name, cmd, date) ==
    [ action |-> "remove", package_name |-> package_name,
      package_manager_name |-> pm_name, package_manager_command |-> cmd,
      date |-> date, state |-> "committed" ]

commit_entry(date, packages_count) ==
    [ action |-> "commit", date |-> date, packages_count |-> packages_count ]

tag_entry(tag_name, date) ==
    [ action |-> "tag", tag_name |-> tag_name, date |-> date ]

\* entry.get("action") == "tag" and entry.get("tag_name") == tag_name
is_tag(entry, tag_name) == entry.action = "tag" /\ entry.tag_name = tag_name

\* list.pop(i), positions counted from 1
pop(list, i) == SubSeq(list, 1, i - 1) \o SubSeq(list, i + 1, Len(list))

----------------------------------------------------------------------------
(* IMS.commit_packages, on the lists *)

\* set_committed with the state left as it was.
set_committed_state_kept(list) == list

\* entry["state"] = "committed" for every uncommitted entry, in order
set_committed(list) == [i \in 1..Len(list) |-> [list[i] EXCEPT !.state = "committed"]]

\* commit_committed with the commit entry written before the entries it commits.
commit_committed_entry_first(c, u, date) ==
    c \o <<commit_entry(date, Len(u))>> \o set_committed(u)

commit_committed(c, u, date) ==
    c \o set_committed(u) \o <<commit_entry(date, Len(u))>>

----------------------------------------------------------------------------
(* IMS.remove_package, on the lists *)

matches_install(entry, package_name, pm_name) ==
    /\ entry.package_name = package_name
    /\ entry.package_manager_name = pm_name
    /\ entry.action = "install"

RECURSIVE remove_uncommitted(_, _, _, _)
\* for i, entry in enumerate(uncommitted): the matching entry is popped while the
\* list is being iterated, and the iteration goes on at the next position.
remove_uncommitted(u, i, package_name, pm_name) ==
    IF i > Len(u) THEN u
    ELSE IF matches_install(u[i], package_name, pm_name)
    THEN remove_uncommitted(pop(u, i), i + 1, package_name, pm_name)
    ELSE remove_uncommitted(u, i + 1, package_name, pm_name)

----------------------------------------------------------------------------
(* IMS.add_tag and IMS.remove_tag, on the list *)

has_tag(c, tag_name) == \E i \in 1..Len(c) : is_tag(c[i], tag_name)

\* The value of the name `entry` after "for i, entry in enumerate(committed)" has
\* run to its end: the loop variable rebinds the name the new tag entry was given.
entry_after_loop(c, tag_name, date) ==
    IF Len(c) = 0 THEN tag_entry(tag_name, date) ELSE c[Len(c)]

\* first_tag as committed.pop(): the last place of the list, whatever it holds.
last_place(c, tag_name) == Len(c)

\* first_tag with the loop run from the end: the last tag entry named tag_name.
last_tag(c, tag_name) == CHOOSE i \in 1..Len(c) :
    is_tag(c[i], tag_name) /\ \A j \in (i + 1)..Len(c) : ~is_tag(c[j], tag_name)

\* for i, entry in enumerate(committed): if <is tag tag_name>: pop(i); return
first_tag(c, tag_name) == CHOOSE i \in 1..Len(c) :
    is_tag(c[i], tag_name) /\ \A j \in 1..(i - 1) : ~is_tag(c[j], tag_name)

----------------------------------------------------------------------------
(* IMS.get_packages_at_tag *)

\* f"{entry['package_manager_name']}:{entry['package_name']}"
key_of(entry) == entry.package_manager_name \o <<":">> \o entry.package_name

has_key(d, key) == \E i \in 1..Len(d) : d[i].key = key

\* dict_set as setdefault: the entry a key already has is kept.
dict_set_keeps_first(d, key, entry) ==
    IF \E i \in 1..Len(d) : d[i].key = key THEN d
    ELSE Append(d, [key |-> key, value |-> entry])

\* dict_set as pop then set: a known key moves to the last place.
dict_set_moves_last(d, key, entry) ==
    Append(SelectSeq(d, LAMBDA kv : kv.key # key), [key |-> key, value |-> entry])

\* installed_packages[key] = entry: a new key goes last, a known key keeps its place
dict_set(d, key, entry) ==
    IF has_key(d, key)
    THEN [i \in 1..Len(d) |-> IF d[i].key = key THEN [key |-> key, value |-> entry] ELSE d[i]]
    ELSE Append(d, [key |-> key, value |-> entry])

\* installed_packages.pop(key, None)
dict_pop(d, key) == SelectSeq(d, LAMBDA kv : kv.key # key)

\* list(installed_packages.values())
dict_values(d) == [i \in 1..Len(d) |-> d[i].value]

RECURSIVE replay_committed(_, _, _, _)
\* The loop over committed, from position i with the dict d built so far.
replay_committed(c, i, tag, d) ==
    IF i > Len(c) THEN d
    ELSE IF truthy(tag) /\ is_tag(c[i], tag[1]) THEN d
    ELSE IF c[i].action = "install"
    THEN replay_committed(c, i + 1, tag, dict_set(d, key_of(c[i]), c[i]))
    ELSE IF c[i].action = "remove"
    THEN replay_committed(c, i + 1, tag, dict_pop(d, key_of(c[i])))
    ELSE replay_committed(c, i + 1, tag, d)

RECURSIVE replay_uncommitted(_, _, _)
\* The loop over uncommitted, which only sets keys.
replay_uncommitted(u, i, d) ==
    IF i > Len(u) THEN d
    ELSE IF u[i].action = "install"
    THEN replay_uncommitted(u, i + 1, dict_set(d, key_of(u[i]), u[i]))
    ELSE replay_uncommitted(u, i + 1, d)

get_packages_at_tag(c, u, tag) ==
    LET d == replay_committed(c, 1, tag, << >>) IN
    dict_values(IF ~truthy(tag) THEN replay_uncommitted(u, 1, d) ELSE d)

----------------------------------------------------------------------------
(* IMS.generate_install_script, on the list get_packages_at_tag returned *)

RECURSIVE join(_, _)
\* sep.join(tokens): the tokens with sep between each two of them.
join(sep, tokens) ==
    IF Len(tokens) = 0 THEN << >>
    ELSE IF Len(tokens) = 1 THEN tokens[1]
    ELSE tokens[1] \o sep \o join(sep, Tail(tokens))

\* script_packages with the test of the state left out.
script_packages_any_state(pkgs) == pkgs

\* for pkg in packages: if pkg['state'] == 'committed'
script_packages(pkgs) == SelectSeq(pkgs, LAMBDA pkg : pkg.state = "committed")

\* f"{' '.join(pkg['package_manager_command'])} \n"
script_line(pkg) == join(<<" ">>, pkg.package_manager_command) \o <<" ", "\n">>

\* The command lines written to the script, in the order they are written.
script_lines(pkgs) ==
    [i \in 1..Len(script_packages(pkgs)) |-> script_line(script_packages(pkgs)[i])]

----------------------------------------------------------------------------
(* The inputs of a run *)

\* Package specifications given on the command line.
PackageSpecs == { <<"foo">>, <<"pip", ":", "foo">> }

\* Tag names given on the command line; argparse accepts the empty string.
TagNames == { "", "v1" }

\* What subprocess.run(cmd, check=True, ...) does: it returns with returncode 0,
\* raises CalledProcessError (non-zero exit), raises OSError (the command cannot be
\* launched), or the run is interrupted (KeyboardInterrupt).
Outcomes == { "ok", "nonzero", "launch", "interrupt" }

\* succeeded with the exit status of the command not looked at.
succeeded_unchecked(outcome) == outcome \in {"ok", "nonzero"}

\* try: result = subprocess.run(..., check=True); if result.returncode == 0: ...
succeeded(outcome) == outcome = "ok"

\* What a run whose command did not succeed prints, and its exit status:
\* CalledProcessError is handled in the command, the others in main().
failure(outcome, verb) ==
    IF outcome = "nonzero" THEN [out |-> "Failed to " \o verb, exit |-> 0]
    ELSE IF outcome = "launch" THEN [out |-> "Error", exit |-> 1]
    ELSE [out |-> "Operation cancelled", exit |-> 1]

\* A run of the tool: the command and its argument, what subprocess.run did ("none"
\* when no command was launched), the message printed and the exit status.
ran(command, arg, run, out, exit) ==
    [command |-> command, arg |-> arg, run |-> run, out |-> out, exit |-> exit]

\* IMS() loads both logs before the command is dispatched; a run that writes
\* nothing leaves the files as they are.
LogUntouched ==
    /\ committed' = load_json_file(committed_file)
    /\ uncommitted' = load_json_file(uncommitted_file)
    /\ UNCHANGED <<committed_file, uncommitted_file>>

----------------------------------------------------------------------------
(* The commands: one action is one run of main() *)

\* ims install <spec> / ims install_commit <spec>
install_package(package_spec, commit_immediately, outcome) ==
    LET r == get_package_manager_command(config, package_spec, "install")
        c == load_json_file(committed_file)
        u == load_json_file(uncommitted_file)
        command == IF commit_immediately THEN "install_commit" ELSE "install"
    IN
    /\ UNCHANGED <<config, ims>>
    /\ packages' = << >>
    /\ IF r.exit # 0
       THEN /\ LogUntouched
            /\ UNCHANGED clock
            /\ last' = ran(command, package_spec, "none", r.out, 1)
       ELSE IF ~succeeded(outcome)
       THEN /\ LogUntouched
            /\ UNCHANGED clock
            /\ last' = ran(command, package_spec, outcome, failure(outcome, "install").out,
                           failure(outcome, "install").exit)
       ELSE LET cmd == r.pm_command \o <<r.package_name>>
                entry == install_entry(r.package_name, r.pm_name, cmd, clock + 1,
                                       commit_immediately)
            IN
            /\ clock < MaxDate
            /\ clock' = clock + 1
            /\ last' = ran(command, package_spec, outcome, "Successfully installed", 0)
            /\ IF commit_immediately
               THEN /\ committed' = Append(c, entry)
                    /\ committed_file' = save_json_file(committed')
                    /\ uncommitted' = u
                    /\ UNCHANGED uncommitted_file
               ELSE /\ uncommitted' = Append(u, entry)
                    /\ uncommitted_file' = save_json_file(uncommitted')
                    /\ committed' = c
                    /\ UNCHANGED committed_file

\* ims commit
commit_packages ==
    LET c == load_json_file(committed_file)
        u == load_json_file(uncommitted_file)
    IN
    /\ UNCHANGED <<config, ims>>
    /\ packages' = << >>
    /\ IF Len(u) = 0
       THEN /\ LogUntouched
            /\ UNCHANGED clock
            /\ last' = ran("commit", None, "none", "No uncommitted packages to commit", 0)
       ELSE /\ clock < MaxDate
            /\ clock' = clock + 1
            /\ committed' = commit_committed(c, u, clock + 1)
            /\ uncommitted' = << >>
            /\ committed_file' = save_json_file(committed')
            /\ uncommitted_file' = save_json_file(uncommitted')
            /\ last' = ran("commit", None, "none", "Committed", 0)

\* ims remove <spec>
remove_package(package_spec, outcome) ==
    LET r == get_package_manager_command(config, package_spec, "uninstall")
        c == load_json_file(committed_file)
        u == load_json_file(uncommitted_file)
    IN
    /\ UNCHANGED <<config, ims>>
    /\ packages' = << >>
    /\ IF r.exit # 0
       THEN /\ LogUntouched
            /\ UNCHANGED clock
            /\ last' = ran("remove", package_spec, "none", r.out, 1)
       ELSE IF ~succeeded(outcome)
       THEN /\ LogUntouched
            /\ UNCHANGED clock
            /\ last' = ran("remove", package_spec, outcome, failure(outcome, "remove").out,
                           failure(outcome, "remove").exit)
       ELSE LET cmd == r.pm_command \o <<r.package_name>>
                left == remove_uncommitted(u, 1, r.package_name, r.pm_name)
            IN
            /\ clock < MaxDate
            /\ clock' = clock + 1
            /\ uncommitted' = left
            \* save_uncommitted() runs after each pop, and only then
            /\ uncommitted_file' = IF left # u THEN save_json_file(left)
                                   ELSE uncommitted_file
            /\ committed' = Append(c, remove_entry(r.package_name, r.pm_name, cmd,
                                                   clock + 1))
            /\ committed_file' = save_json_file(committed')
            /\ last' = ran("remove", package_spec, outcome, "Successfully removed", 0)

\* ims add_tag <tag_name>
add_tag(tag_name) ==
    LET c == load_json_file(committed_file) IN
    /\ UNCHANGED <<config, ims>>
    /\ packages' = << >>
    /\ clock < MaxDate
    /\ clock' = clock + 1
    /\ IF has_tag(c, tag_name)
       THEN /\ LogUntouched
            /\ last' = ran("add_tag", Some(tag_name), "none", "Tag already exists", 0)
       ELSE /\ committed' = Append(c, entry_after_loop(c, tag_name, clock + 1))
            /\ committed_file' = save_json_file(committed')
            /\ uncommitted' = load_json_file(uncommitted_file)
            /\ UNCHANGED uncommitted_file
            /\ last' = ran("add_tag", Some(tag_name), "none", "Added tag", 0)

\* ims remove_tag <tag_name>
remove_tag(tag_name) ==
    LET c == load_json_file(committed_file) IN
    /\ UNCHANGED <<config, clock, ims>>
    /\ packages' = << >>
    /\ IF has_tag(c, tag_name)
       THEN /\ committed' = pop(c, first_tag(c, tag_name))
            /\ committed_file' = save_json_file(committed')
            /\ uncommitted' = load_json_file(uncommitted_file)
            /\ UNCHANGED uncommitted_file
            /\ last' = ran("remove_tag", Some(tag_name), "none", "Removed tag", 0)
       ELSE /\ LogUntouched
            /\ last' = ran("remove_tag", Some(tag_name), "none", "Tag not found", 0)

\* list_installed with the reconstruction kept in place of the committed list.
list_installed_in_place(tag) ==
    /\ UNCHANGED <<config, clock, committed_file, uncommitted_file, ims>>
    /\ uncommitted' = load_json_file(uncommitted_file)
    /\ packages' = get_packages_at_tag(load_json_file(committed_file), uncommitted', tag)
    /\ committed' = packages'
    /\ last' = ran("list_installed", tag, "none",
                   IF Len(packages') = 0 THEN "No packages installed"
                   ELSE "Installed packages", 0)

\* ims list_installed [tag]
list_installed(tag) ==
    /\ UNCHANGED <<config, clock, ims>>
    /\ LogUntouched
    /\ packages' = get_packages_at_tag(committed', uncommitted', tag)
    /\ last' = ran("list_installed", tag, "none",
                   IF Len(packages') = 0 THEN "No packages installed"
                   ELSE "Installed packages", 0)

\* ims geninstall [tag]
generate_install_script(tag) ==
    /\ UNCHANGED <<config, clock, ims>>
    /\ LogUntouched
    /\ packages' = get_packages_at_tag(committed', uncommitted', tag)
    /\ last' = ran("geninstall", tag, "none",
                   IF Len(packages') = 0 THEN "No packages to generate script for"
                   ELSE "Generated install script", 0)

\* The command lines of the script the last run wrote; no script is written when
\* get_packages_at_tag returned nothing.
script ==
    IF last.command = "geninstall" /\ last.out = "Generated install script"
    THEN script_lines(packages)
    ELSE << >>

----------------------------------------------------------------------------
(* The tool, run any number of times from empty logs *)

Init ==
    /\ committed_file = absent_file
    /\ uncommitted_file = absent_file
    /\ committed = << >>
    /\ uncommitted = << >>
    /\ config \in load_config
    /\ clock = 0
    /\ last = ran("", None, "none", "", 0)
    /\ packages = << >>
    /\ ims = << >>

Next ==
    \/ \E package_spec \in PackageSpecs, outcome \in Outcomes :
          install_package(package_spec, FALSE, outcome)
    \/ \E package_spec \in PackageSpecs, outcome \in Outcomes :
          install_package(package_spec, TRUE, outcome)
    \/ commit_packages
    \/ \E package_spec \in PackageSpecs, outcome \in Outcomes :
          remove_package(package_spec, outcome)
    \/ \E tag_name \in TagNames : add_tag(tag_name)
    \/ \E tag_name \in TagNames : remove_tag(tag_name)
    \/ \E tag \in {None} \cup {Some(t) : t \in TagNames} : list_installed(tag)
    \/ \E tag \in {None} \cup {Some(t) : t \in TagNames} : generate_install_script(tag)

Spec == Init /\ [][Next]_vars

----------------------------------------------------------------------------
(* get_packages_at_tag applied to the logs the files may hold *)

\* The requests: no tag, the two tag names of the logs, and a name no log holds.
ReplayRequests == { None, Some(""), Some("t1"), Some("v1") }

\* The entries of a log, by kind; the date of an entry is its place in the log.
CommittedKinds == { "install apt", "install pip", "remove apt", "remove pip", "commit",
                    "tag", "tag t1" }

UncommittedKinds == { "install apt", "install pip" }

\* The entry the tool writes under the default configuration for each kind.
log_entry(kind, date, commit_immediately) ==
    LET resolved(package_spec, cmd_id) ==
            get_package_manager_command(default_config, package_spec, cmd_id)
        install(r) == install_entry(r.package_name, r.pm_name,
                                    r.pm_command \o <<r.package_name>>, date,
                                    commit_immediately)
        removal(r) == remove_entry(r.package_name, r.pm_name,
                                   r.pm_command \o <<r.package_name>>, date)
    IN
    CASE kind = "install apt" -> install(resolved(<<"foo">>, "install"))
      [] kind = "install pip" -> install(resolved(<<"pip", ":", "foo">>, "install"))
      [] kind = "remove apt"  -> removal(resolved(<<"foo">>, "uninstall"))
      [] kind = "remove pip"  -> removal(resolved(<<"pip", ":", "foo">>, "uninstall"))
      [] kind = "commit"      -> commit_entry(date, 1)
      [] kind = "tag"         -> tag_entry("", date)
      [] kind = "tag t1"      -> tag_entry("t1", date)

\* Every log of at most max entries of the given kinds, dated from `from` on.
Logs(kinds, max, from, commit_immediately) ==
    { [i \in 1..Len(ks) |-> log_entry(ks[i], from + i, commit_immediately)] :
        ks \in UNION { [1..n -> kinds] : n \in 0..max } }

InitReplay ==
    /\ committed_file \in
         { save_json_file(c) : c \in Logs(CommittedKinds, MaxCommittedLen, 0, TRUE) }
    /\ uncommitted_file \in
         { save_json_file(u) :
             u \in Logs(UncommittedKinds, MaxUncommittedLen, MaxCommittedLen, FALSE) }
    /\ committed = << >>
    /\ uncommitted = << >>
    /\ config = default_config
    /\ clock = MaxCommittedLen + MaxUncommittedLen
    /\ last = ran("", None, "none", "", 0)
    /\ packages = << >>
    /\ ims = << >>

NextReplay ==
    \/ \E tag \in ReplayRequests : list_installed(tag)
    \/ \E tag \in ReplayRequests : generate_install_script(tag)

SpecReplay == InitReplay /\ [][NextReplay]_vars

----------------------------------------------------------------------------
(* install and remove, run on the pending installs the uncommitted file may hold *)

\* The pending installs were logged before the runs observed here: their dates lie
\* before the first tick of the clock.
InitPending ==
    /\ committed_file = absent_file
    /\ uncommitted_file \in
         { save_json_file(u) : u \in Logs(UncommittedKinds, MaxPending, -MaxPending, FALSE) }
    /\ committed = << >>
    /\ uncommitted = << >>
    /\ config = default_config
    /\ clock = 0
    /\ last = ran("", None, "none", "", 0)
    /\ packages = << >>
    /\ ims = << >>

NextPending ==
    \/ \E package_spec \in PackageSpecs, outcome \in Outcomes :
          install_package(package_spec, FALSE, outcome)
    \/ \E package_spec \in PackageSpecs, outcome \in Outcomes :
          remove_package(package_spec, outcome)

SpecPending == InitPending /\ [][NextPending]_vars

----------------------------------------------------------------------------
(* remove_tag, run on the logs the files may hold *)

NextTags == \E tag_name \in {"", "t1", "v1"} : remove_tag(tag_name)

SpecTags == InitReplay /\ [][NextTags]_vars

----------------------------------------------------------------------------
(* Runs of the tool, statement by statement: a run can be killed between two *)
(* statements and the statements of two runs interleave.                     *)

\* An instance whose main() has not been entered.  Of a started instance, command and
\* arg are its command line, committed and uncommitted are ims.data, i is the
\* position of the loop of remove_package, loaded is what IMSData() read, and at is
\* the statement a killed instance was killed before.
not_started ==
    [ pc |-> "idle", at |-> "", command |-> "", arg |-> None, committed |-> << >>,
      uncommitted |-> << >>, i |-> 0,
      loaded |-> [committed |-> << >>, uncommitted |-> << >>] ]

\* The command lines that write to the logs.
Invocations ==
    { <<command, package_spec>> :
        command \in {"install", "install_commit", "remove"}, package_spec \in PackageSpecs }
    \cup { <<"commit", None>> }

Frame == UNCHANGED <<committed, uncommitted, config, last, packages>>

\* main(): the command line is parsed
start(p, command, arg) ==
    /\ ims[p].pc = "idle"
    /\ ims' = [ims EXCEPT ![p].pc = "load_uncommitted", ![p].command = command,
                          ![p].arg = arg]
    /\ UNCHANGED <<committed_file, uncommitted_file, clock>>
    /\ Frame

\* IMSData(): self.uncommitted = self.load_json_file(self.uncommitted_file)
load_uncommitted(p) ==
    /\ ims[p].pc = "load_uncommitted"
    /\ ims' = [ims EXCEPT ![p].pc = "load_committed",
                          ![p].uncommitted = load_json_file(uncommitted_file)]
    /\ UNCHANGED <<committed_file, uncommitted_file, clock>>
    /\ Frame

\* IMSData(): self.committed = self.load_json_file(self.committed_file)
load_committed(p) ==
    /\ ims[p].pc = "load_committed"
    /\ ims' = [ims EXCEPT ![p].pc = "run",
                          ![p].committed = load_json_file(committed_file),
                          ![p].loaded = [committed |-> load_json_file(committed_file),
                                         uncommitted |-> ims[p].uncommitted]]
    /\ UNCHANGED <<committed_file, uncommitted_file, clock>>
    /\ Frame

\* The command up to its first write to a file: commit_packages as far as
\* save_committed(), install_package as far as its save, remove_package as far as
\* its loop.
dispatch(p, outcome) ==
    LET m == ims[p]
        r == get_package_manager_command(config, m.arg,
                                         IF m.command = "remove" THEN "uninstall"
                                         ELSE "install")
        entry == install_entry(r.package_name, r.pm_name, r.pm_command \o <<r.package_name>>,
                               clock + 1, m.command = "install_commit")
    IN
    /\ m.pc = "run"
    /\ UNCHANGED <<committed_file, uncommitted_file>>
    /\ Frame
    /\ IF m.command = "commit"
       THEN IF Len(m.uncommitted) = 0
            THEN /\ ims' = [ims EXCEPT ![p].pc = "done"]
                 /\ UNCHANGED clock
            ELSE /\ clock' = clock + 1
                 /\ ims' = [ims EXCEPT ![p].pc = "open_committed",
                                       ![p].committed =
                                           commit_committed(m.committed, m.uncommitted,
                                                            clock + 1),
                                       ![p].uncommitted = << >>]
       ELSE IF r.exit # 0 \/ ~succeeded(outcome)
       THEN /\ ims' = [ims EXCEPT ![p].pc = "done"]
            /\ UNCHANGED clock
       ELSE IF m.command = "remove"
       THEN /\ ims' = [ims EXCEPT ![p].pc = "loop", ![p].i = 1]
            /\ UNCHANGED clock
       ELSE IF m.command = "install_commit"
       THEN /\ clock' = clock + 1
            /\ ims' = [ims EXCEPT ![p].pc = "open_committed",
                                  ![p].committed = Append(m.committed, entry)]
       ELSE /\ clock' = clock + 1
            /\ ims' = [ims EXCEPT ![p].pc = "open_uncommitted",
                                  ![p].uncommitted = Append(m.uncommitted, entry)]

\* remove_package: one turn of "for i, entry in enumerate(self.data.uncommitted)",
\* and after the loop the remove entry appended to committed.
loop(p) ==
    LET m == ims[p]
        r == get_package_manager_command(config, m.arg, "uninstall")
    IN
    /\ m.pc = "loop"
    /\ UNCHANGED <<committed_file, uncommitted_file>>
    /\ Frame
    /\ IF m.i > Len(m.uncommitted)
       THEN /\ clock' = clock + 1
            /\ ims' = [ims EXCEPT ![p].pc = "open_committed",
                                  ![p].committed =
                                      Append(m.committed,
                                             remove_entry(r.package_name, r.pm_name,
                                                          r.pm_command \o <<r.package_name>>,
                                                          clock + 1))]
       ELSE IF matches_install(m.uncommitted[m.i], r.package_name, r.pm_name)
       THEN /\ ims' = [ims EXCEPT ![p].pc = "open_uncommitted", ![p].i = m.i + 1,
                                  ![p].uncommitted = pop(m.uncommitted, m.i)]
            /\ UNCHANGED clock
       ELSE /\ ims' = [ims EXCEPT ![p].i = m.i + 1]
            /\ UNCHANGED clock

\* save_uncommitted(): with open(file_path, 'w') as f
open_uncommitted(p) ==
    /\ ims[p].pc = "open_uncommitted"
    /\ uncommitted_file' = truncated_file
    /\ ims' = [ims EXCEPT ![p].pc = "dump_uncommitted"]
    /\ UNCHANGED <<committed_file, clock>>
    /\ Frame

\* save_uncommitted(): json.dump(data, f) and the file closed; remove_package goes
\* on with its loop, install_package and commit_packages are at their end.
dump_uncommitted(p) ==
    /\ ims[p].pc = "dump_uncommitted"
    /\ uncommitted_file' = save_json_file(ims[p].uncommitted)
    /\ ims' = [ims EXCEPT ![p].pc = IF ims[p].command = "remove" THEN "loop" ELSE "done"]
    /\ UNCHANGED <<committed_file, clock>>
    /\ Frame

\* open_committed with the file read again before it is opened for writing: the
\* entries other instances saved since the load are put before the entries of this run.
open_committed_reloading(p) ==
    /\ ims[p].pc = "open_committed"
    /\ committed_file' = truncated_file
    /\ ims' = [ims EXCEPT ![p].pc = "dump_committed",
                          ![p].committed =
                              load_json_file(committed_file)
                              \o SubSeq(ims[p].committed, Len(ims[p].loaded.committed) + 1,
                                        Len(ims[p].committed))]
    /\ UNCHANGED <<uncommitted_file, clock>>
    /\ Frame

\* save_committed(): with open(file_path, 'w') as f
open_committed(p) ==
    /\ ims[p].pc = "open_committed"
    /\ committed_file' = truncated_file
    /\ ims' = [ims EXCEPT ![p].pc = "dump_committed"]
    /\ UNCHANGED <<uncommitted_file, clock>>
    /\ Frame

\* save_committed(): json.dump(data, f) and the file closed; commit_packages goes on
\* with save_uncommitted(), install_package and remove_package are at their end.
dump_committed(p) ==
    /\ ims[p].pc = "dump_committed"
    /\ committed_file' = save_json_file(ims[p].committed)
    /\ ims' = [ims EXCEPT ![p].pc = IF ims[p].command = "commit" THEN "open_uncommitted"
                                    ELSE "done"]
    /\ UNCHANGED <<uncommitted_file, clock>>
    /\ Frame

\* The process is killed (SIGKILL, power loss) before its next statement.
kill(p) ==
    /\ ims[p].pc \notin {"idle", "done", "killed"}
    /\ ims' = [ims EXCEPT ![p].pc = "killed", ![p].at = ims[p].pc]
    /\ UNCHANGED <<committed_file, uncommitted_file, clock>>
    /\ Frame

\* The logs earlier runs left, and the given instances not yet started.
InitInstances(ids) ==
    /\ committed_file = absent_file
    /\ uncommitted_file \in
         { save_json_file(u) :
             u \in Logs(UncommittedKinds, MaxUncommittedLen, -MaxUncommittedLen, FALSE) }
    /\ committed = << >>
    /\ uncommitted = << >>
    /\ config = default_config
    /\ clock = 0
    /\ last = ran("", None, "none", "", 0)
    /\ packages = << >>
    /\ ims = [p \in ids |-> not_started]

NextInstances ==
    \/ \E p \in DOMAIN ims, invocation \in Invocations :
          start(p, invocation[1], invocation[2])
    \/ \E p \in DOMAIN ims : load_uncommitted(p)
    \/ \E p \in DOMAIN ims : load_committed(p)
    \/ \E p \in DOMAIN ims, outcome \in Outcomes : dispatch(p, outcome)
    \/ \E p \in DOMAIN ims : loop(p)
    \/ \E p \in DOMAIN ims : open_uncommitted(p)
    \/ \E p \in DOMAIN ims : dump_uncommitted(p)
    \/ \E p \in DOMAIN ims : open_committed(p)
    \/ \E p \in DOMAIN ims : dump_committed(p)
    \/ \E p \in DOMAIN ims : kill(p)

\* One run, which can be killed.
InitKill == InitInstances({1})

SpecKill == InitKill /\ [][NextInstances]_vars

\* Two runs at the same time.
InitTwo == InitInstances({1, 2})

SpecInstances == InitTwo /\ [][NextInstances]_vars

----------------------------------------------------------------------------
(* Properties of the log commands, checked under Spec *)

\* Every run leaves in memory what the files hold.
MemoryIsFiles ==
    /\ committed = load_json_file(committed_file)
    /\ uncommitted = load_json_file(uncommitted_file)

\* The step is a run of `command` with argument `arg`.
Runs(command, arg) == last'.command = command /\ last'.arg = arg

\* The places of the tag entries named tag_name in log c.
TagPlaces(c, tag_name) == { i \in 1..Len(c) : is_tag(c[i], tag_name) }

\* The (manager, package) identity a package specification names.
SameIdentity(entry, package_spec) ==
    /\ entry.package_manager_name = split_spec(config, package_spec).pm_id
    /\ entry.package_name = split_spec(config, package_spec).package_name

\* C1: add_tag(name), run when committed holds no tag named name, appends exactly one
\* entry to committed, a tag entry named name; the entries committed held and all of
\* uncommitted stay as they were.
C1_AddTagAppendsTag ==
    [][ \A name \in TagNames :
          (Runs("add_tag", Some(name)) /\ ~has_tag(committed, name)) =>
             /\ Len(committed') = Len(committed) + 1
             /\ SubSeq(committed', 1, Len(committed)) = committed
             /\ is_tag(committed'[Len(committed')], name)
             /\ uncommitted' = uncommitted ]_vars

\* C2: committed never holds two tag entries of the same name.
C2_TagNamesUnique ==
    \A name \in TagNames : Cardinality(TagPlaces(committed, name)) <= 1

\* C3: add_tag("v1") run twice in a row, the first from a log with no tag "v1" (it
\* reports "Added tag"), leaves exactly one tag "v1" in committed, and the second run
\* changes neither log.
C3_SecondAddTagIsNoOp ==
    [][ (last = ran("add_tag", Some("v1"), "none", "Added tag", 0)
         /\ Runs("add_tag", Some("v1"))) =>
           /\ Cardinality(TagPlaces(committed', "v1")) = 1
           /\ committed' = committed
           /\ uncommitted' = uncommitted ]_vars

\* C4: a successful install P (not committed) followed by a successful remove P leaves
\* no install entry of P's identity in uncommitted, and the remove adds to committed
\* one remove entry of P and nothing else.
C4_RemoveCancelsPendingInstall ==
    [][ \A p \in PackageSpecs :
          (last = ran("install", p, "ok", "Successfully installed", 0)
           /\ last' = ran("remove", p, "ok", "Successfully removed", 0)) =>
             /\ \A i \in 1..Len(uncommitted') :
                   ~(uncommitted'[i].action = "install" /\ SameIdentity(uncommitted'[i], p))
             /\ Len(committed') = Len(committed) + 1
             /\ SubSeq(committed', 1, Len(committed)) = committed
             /\ committed'[Len(committed')].action = "remove"
             /\ SameIdentity(committed'[Len(committed')], p) ]_vars

\* C6: a successful install P (not committed) followed by commit leaves uncommitted
\* empty, and get_installed(None) then holds an install entry of P in state committed.
C6_InstallCommitRoundTrip ==
    [][ \A p \in PackageSpecs :
          (last = ran("install", p, "ok", "Successfully installed", 0)
           /\ last' = ran("commit", None, "none", "Committed", 0)) =>
             LET installed == get_packages_at_tag(committed', uncommitted', None) IN
             /\ uncommitted' = << >>
             /\ \E i \in 1..Len(installed) :
                   /\ installed[i].action = "install"
                   /\ SameIdentity(installed[i], p)
                   /\ installed[i].state = "committed" ]_vars

\* C6 happens: a commit has run right after an install, whose entry is now the one
\* before the commit entry.
C6_Witness ==
    /\ last = ran("commit", None, "none", "Committed", 0)
    /\ uncommitted = << >>
    /\ Len(committed) >= 2
    /\ committed[Len(committed)].action = "commit"
    /\ committed[Len(committed) - 1].action = "install"
    /\ committed[Len(committed) - 1].date = clock - 1

\* C7: commit with n >= 1 pending entries u1..un turns committed C into
\* C ++ [u1', .., un', commit(packages_count = n)], ui' being ui in state committed,
\* and empties uncommitted.
C7_CommitMovesPending ==
    [][ (Runs("commit", None) /\ Len(uncommitted) >= 1) =>
          LET n == Len(uncommitted)
              m == Len(committed)
          IN
          /\ Len(committed') = m + n + 1
          /\ \A i \in 1..m : committed'[i] = committed[i]
          /\ \A i \in 1..n :
                /\ committed'[m + i].action = "install"
                /\ committed'[m + i] = [uncommitted[i] EXCEPT !.state = "committed"]
          /\ committed'[m + n + 1].action = "commit"
          /\ committed'[m + n + 1].packages_count = n
          /\ uncommitted' = << >>
          /\ committed_file' = save_json_file(committed')
          /\ uncommitted_file' = save_json_file(uncommitted') ]_vars

\* C7 happens: a commit has moved two pending entries behind an older entry.
C7_Witness ==
    /\ last = ran("commit", None, "none", "Committed", 0)
    /\ committed[Len(committed)].action = "commit"
    /\ committed[Len(committed)].packages_count = 2
    /\ Len(committed) >= 3
    /\ committed[Len(committed) - 2].date < committed[Len(committed) - 1].date

\* C8: an install or remove whose external command did not report success (it was not
\* launched because the manager or the operation is unknown, exited non-zero, could
\* not be launched, or was interrupted) leaves both logs, in memory and on disk, as
\* they were.
C8_FailedRunKeepsLogs ==
    [][ (last'.command \in {"install", "install_commit", "remove"} /\ last'.run # "ok") =>
          /\ committed' = committed
          /\ uncommitted' = uncommitted
          /\ committed_file' = committed_file
          /\ uncommitted_file' = uncommitted_file ]_vars

\* C8 happens: a remove has failed on a package that has a pending install, with a
\* committed log that is not empty.
C8_Witness ==
    /\ last.command = "remove"
    /\ last.run \in {"nonzero", "launch", "interrupt"}
    /\ \E i \in 1..Len(uncommitted) : SameIdentity(uncommitted[i], last.arg)
    /\ Len(committed) >= 1

----------------------------------------------------------------------------
(* Properties of the reconstruction, checked under SpecReplay *)

\* The (manager, package) identity of an install or remove entry.
Identity(entry) == <<entry.package_manager_name, entry.package_name>>

\* Entry e installs or removes the package of identity id.
Touches(e, id) == e.action \in {"install", "remove"} /\ Identity(e) = id

\* What replaying a log leaves installed: the install entries that no later install
\* or remove entry of the same identity follows.
Survivors(log) ==
    { log[i] : i \in { k \in 1..Len(log) :
                         /\ log[k].action = "install"
                         /\ \A j \in (k + 1)..Len(log) : ~Touches(log[j], Identity(log[k])) } }

\* The last run returned exactly the entries of S, each once.
Returned(S) ==
    /\ { packages[i] : i \in 1..Len(packages) } = S
    /\ Len(packages) = Cardinality(S)

\* The entries of log c before its first tag entry named tag_name.
BeforeTag(c, tag_name) ==
    SubSeq(c, 1, (CHOOSE i \in TagPlaces(c, tag_name) :
                     \A j \in TagPlaces(c, tag_name) : i <= j) - 1)

InstallsOf(u) == SelectSeq(u, LAMBDA e : e.action = "install")

Listed(tag) == last.command = "list_installed" /\ last.arg = tag

\* C5: when committed holds a tag entry named T, get_installed(T) is the replay of the
\* entries before the first tag entry named T and of nothing else; for
\* committed = [install A, tag "t1", remove A], get_installed("t1") holds A and
\* get_installed(None) does not.
C5_TagBoundaryExclusion ==
    /\ \A T \in {"", "t1", "v1"} :
          (Listed(Some(T)) /\ has_tag(committed, T)) =>
             Returned(Survivors(BeforeTag(committed, T)))
    /\ LET example == << log_entry("install apt", 1, TRUE), log_entry("tag t1", 2, TRUE),
                         log_entry("remove apt", 3, TRUE) >>
       IN (committed = example /\ uncommitted = << >>) =>
             /\ Listed(Some("t1")) => packages = << example[1] >>
             /\ Listed(None) => packages = << >>

\* C9: get_installed(None) is the replay of committed followed by the install entries
\* of uncommitted; get_installed(T) for a T that is in no tag entry of committed is the
\* replay of committed alone.
C9_UncommittedOnlyWithoutTag ==
    /\ Listed(None) => Returned(Survivors(committed \o InstallsOf(uncommitted)))
    /\ \A T \in {"", "t1", "v1"} :
          (Listed(Some(T)) /\ ~has_tag(committed, T)) => Returned(Survivors(committed))

\* The log a request replays: all of both logs without a tag, committed up to the
\* tag (all of it when it holds no such tag) with a tag name that is not empty.
Replayed(tag) ==
    IF tag = None THEN committed \o InstallsOf(uncommitted)
    ELSE IF has_tag(committed, tag[1]) THEN BeforeTag(committed, tag[1])
    ELSE committed

\* Places i < j of log hold install entries of one identity with no remove entry of
\* that identity between them.
TwoInstalls(log, i, j) ==
    /\ i < j
    /\ log[i].action = "install"
    /\ log[j].action = "install"
    /\ Identity(log[i]) = Identity(log[j])
    /\ \A k \in (i + 1)..(j - 1) :
          ~(log[k].action = "remove" /\ Identity(log[k]) = Identity(log[i]))

\* The entries returned for the identity of entry e.
ReturnedFor(e) ==
    { i \in 1..Len(packages) : Identity(packages[i]) = Identity(e) }

\* C10 as stated: when the replayed log holds two install entries of one identity
\* with no remove entry of it between them, the reconstruction holds exactly one
\* entry of that identity, the later of the two.
C10_LaterInstallWins ==
    \A tag \in {None, Some("t1"), Some("v1")} :
       Listed(tag) =>
          \A i, j \in 1..Len(Replayed(tag)) :
             TwoInstalls(Replayed(tag), i, j) =>
                /\ Cardinality(ReturnedFor(Replayed(tag)[j])) = 1
                /\ \A k \in ReturnedFor(Replayed(tag)[j]) : packages[k] = Replayed(tag)[j]

\* C10 amended: the same, when no install or remove entry of that identity follows
\* the later of the two in the replayed log.
C10_LastInstallWins ==
    \A tag \in {None, Some("t1"), Some("v1")} :
       Listed(tag) =>
          \A i, j \in 1..Len(Replayed(tag)) :
             (/\ TwoInstalls(Replayed(tag), i, j)
              /\ \A k \in (j + 1)..Len(Replayed(tag)) :
                    ~Touches(Replayed(tag)[k], Identity(Replayed(tag)[j]))) =>
                /\ Cardinality(ReturnedFor(Replayed(tag)[j])) = 1
                /\ \A k \in ReturnedFor(Replayed(tag)[j]) : packages[k] = Replayed(tag)[j]

\* C10 happens: the log replayed by the last run holds two install entries of one
\* identity, nothing of that identity after them, and an install of the other
\* identity before them.
C10_Witness ==
    /\ Listed(None)
    /\ Len(committed) = 3
    /\ TwoInstalls(committed, 2, 3)
    /\ committed[1].action = "install"
    /\ Identity(committed[1]) # Identity(committed[2])
    /\ uncommitted = << >>
    /\ Len(packages) = 2

----------------------------------------------------------------------------
(* Properties of the script and of the logs, checked under Spec *)

\* The last run was geninstall with this tag argument.
Generated(tag) == last.command = "geninstall" /\ last.arg = tag

\* The install entries of a log.
InstallPlaces(log) == { i \in 1..Len(log) : log[i].action = "install" }

\* C11: every command line of a generated script is the line of an install entry
\* whose state is "committed"; a package whose only install entries are in uncommitted
\* has no line in the script generated without a tag.
C11_ScriptLeavesOutUncommitted ==
    last.command = "geninstall" =>
       /\ \A k \in 1..Len(script) :
             \E i \in InstallPlaces(committed \o uncommitted) :
                /\ (committed \o uncommitted)[i].state = "committed"
                /\ script_line((committed \o uncommitted)[i]) = script[k]
       /\ Generated(None) =>
             \A j \in InstallPlaces(uncommitted) :
                (\A i \in InstallPlaces(committed) :
                    Identity(committed[i]) # Identity(uncommitted[j])) =>
                   \A k \in 1..Len(script) : script[k] # script_line(uncommitted[j])

\* C11 happens: a script was generated without a tag, with a line for a committed
\* package, while another package has its only install entry in uncommitted.
C11_Witness ==
    /\ Generated(None)
    /\ Len(script) >= 1
    /\ \E j \in InstallPlaces(uncommitted) :
          \A i \in InstallPlaces(committed) :
             Identity(committed[i]) # Identity(uncommitted[j])

\* C12: uncommitted holds only install entries in state "uncommitted"; committed
\* holds only install entries in state "committed", remove, commit and tag entries.
\* The files hold the same.
C12_LogTyping ==
    /\ \A u \in {uncommitted, load_json_file(uncommitted_file)} :
          \A i \in 1..Len(u) : u[i].action = "install" /\ u[i].state = "uncommitted"
    /\ \A c \in {committed, load_json_file(committed_file)} :
          \A i \in 1..Len(c) :
             /\ c[i].action \in {"install", "remove", "commit", "tag"}
             /\ c[i].action = "install" => c[i].state = "committed"

\* C12 happens: committed holds an install entry that a commit moved there, and
\* uncommitted holds a pending one.
C12_Witness ==
    /\ Len(uncommitted) >= 1
    /\ Len(committed) >= 2
    /\ committed[Len(committed)].action = "commit"
    /\ committed[Len(committed) - 1].action = "install"

\* C13: a run that reconstructs the installed packages (list_installed, geninstall)
\* leaves both logs as they were, in memory and on disk, and a second such run with
\* the same tag argument right after it returns the same entries in the same order.
C13_ReconstructionReadsOnly ==
    [][ last'.command \in {"list_installed", "geninstall"} =>
          /\ committed' = committed
          /\ uncommitted' = uncommitted
          /\ committed_file' = committed_file
          /\ uncommitted_file' = uncommitted_file
          /\ (last.command \in {"list_installed", "geninstall"} /\ last.arg = last'.arg) =>
                packages' = packages ]_vars

\* C13 happens: the installed packages were reconstructed from logs that both hold
\* entries, and two entries were returned.
C13_Witness ==
    /\ last.command = "list_installed"
    /\ Len(packages) = 2
    /\ Len(committed) >= 1
    /\ Len(uncommitted) >= 1

----------------------------------------------------------------------------
(* Properties of remove on several pending installs, checked under SpecPending *)

\* The places of the install entries of package_spec's identity in log u.
PendingPlaces(u, package_spec) ==
    { i \in 1..Len(u) : u[i].action = "install" /\ SameIdentity(u[i], package_spec) }

\* C14: a successful remove P takes out of uncommitted exactly the first install entry
\* of P's identity when there is one, and leaves every other entry, later installs of
\* P included, in its order; with no such entry uncommitted stays as it was.
C14_RemoveTakesFirstPending ==
    [][ \A p \in PackageSpecs :
          (Runs("remove", p) /\ last'.out = "Successfully removed") =>
             LET u == load_json_file(uncommitted_file)
                 places == PendingPlaces(u, p)
                 kept == IF places = {} THEN u
                         ELSE pop(u, CHOOSE i \in places : \A j \in places : i <= j)
             IN /\ uncommitted' = kept
                /\ load_json_file(uncommitted_file') = kept ]_vars

----------------------------------------------------------------------------
(* Properties of the order of the script, checked under SpecReplay *)

\* The entries the last run wrote a line for, in the order of the lines.
Emitted == IF last.command = "geninstall" THEN script_packages(packages) ELSE << >>

\* The place of entry e in committed; the entries of a log differ in their dates.
PlaceOf(e) == CHOOSE i \in 1..Len(committed) : committed[i] = e

\* The place where the key of entry e was set for the first time since it was last
\* removed: the earliest install entry of e's identity with no remove entry of that
\* identity between it and e.
KeyPlaceOf(e) ==
    CHOOSE i \in 1..PlaceOf(e) :
       /\ TwoInstalls(committed, i, PlaceOf(e)) \/ i = PlaceOf(e)
       /\ \A j \in 1..(i - 1) : ~TwoInstalls(committed, j, PlaceOf(e))

\* C15 as stated: the lines of the script follow the places in committed of the
\* install entries they are written from, also for a package installed more than once.
C15_ScriptFollowsInstallPlaces ==
    /\ \A k \in 1..Len(Emitted) : \E i \in 1..Len(committed) : committed[i] = Emitted[k]
    /\ \A k, l \in 1..Len(Emitted) :
          k < l => PlaceOf(Emitted[k]) < PlaceOf(Emitted[l])

\* C15 amended: the lines of the script follow the places where the keys of their
\* entries were first set since their last removal.
C15_ScriptFollowsKeyPlaces ==
    /\ \A k \in 1..Len(Emitted) :
          /\ \E i \in 1..Len(committed) : committed[i] = Emitted[k]
          /\ script[k] = script_line(Emitted[k])
    /\ \A k, l \in 1..Len(Emitted) :
          k < l => KeyPlaceOf(Emitted[k]) < KeyPlaceOf(Emitted[l])

\* C15 happens: a script of two lines was generated from a log in which the package
\* of the first line was installed again after the package of the second line.
C15_Witness ==
    /\ Len(script) = 2
    /\ Len(committed) = 3
    /\ TwoInstalls(committed, 1, 3)
    /\ Emitted[1] = committed[3]
    /\ Emitted[2] = committed[2]

----------------------------------------------------------------------------
(* Permanence of committed, checked under Spec *)

\* The entries of log c that are not tag entries, in their order.
NonTags(c) == SelectSeq(c, LAMBDA e : e.action # "tag")

IsPrefix(a, b) == Len(a) <= Len(b) /\ SubSeq(b, 1, Len(a)) = a

\* C17: every run leaves the install, remove and commit entries of committed in
\* place: the non-tag entries before the run are a prefix of those after it, and a
\* run either only appends to committed or is a remove_tag that takes out one tag
\* entry.
C17_CommittedIsPermanent ==
    [][ LET before == load_json_file(committed_file)
            after == load_json_file(committed_file')
        IN /\ IsPrefix(NonTags(before), NonTags(after))
           /\ \/ IsPrefix(before, after)
              \/ /\ last'.command = "remove_tag"
                 /\ \E i \in 1..Len(before) :
                       before[i].action = "tag" /\ after = pop(before, i)
           /\ committed' = after ]_vars

\* C17 happens: remove_tag took a tag entry out of a committed list that holds an
\* install entry.
C17_Witness ==
    /\ last.command = "remove_tag"
    /\ last.out = "Removed tag"
    /\ \E i \in 1..Len(committed) : committed[i].action = "install"

----------------------------------------------------------------------------
(* Properties of remove_tag, checked under SpecTags *)

\* C18: remove_tag name takes out of committed exactly the first tag entry named
\* name and leaves every other entry and uncommitted as they were; when committed
\* holds no tag entry named name nothing changes.
C18_RemoveTagTakesFirstTag ==
    [][ \A name \in {"", "t1", "v1"} :
          Runs("remove_tag", Some(name)) =>
             LET c == load_json_file(committed_file)
                 places == TagPlaces(c, name)
                 kept == IF places = {} THEN c
                         ELSE pop(c, CHOOSE i \in places : \A j \in places : i <= j)
             IN /\ committed' = kept
                /\ load_json_file(committed_file') = kept
                /\ places = {} => committed_file' = committed_file
                /\ uncommitted' = load_json_file(uncommitted_file)
                /\ uncommitted_file' = uncommitted_file ]_vars

\* C18 happens: remove_tag t1 ran on [tag t1, install, tag t1] and left the install
\* entry and the second tag entry.
C18_Witness ==
    /\ last = ran("remove_tag", Some("t1"), "none", "Removed tag", 0)
    /\ Len(committed) = 2
    /\ committed[1].action = "install"
    /\ is_tag(committed[2], "t1")
    /\ Len(uncommitted) = 1

----------------------------------------------------------------------------
(* Tags as snapshots, checked under Spec *)

\* The step is neither remove_tag T nor add_tag T.
KeepsTag(T) ==
    ~(last'.command \in {"add_tag", "remove_tag"} /\ last'.arg = Some(T))

\* C20: once add_tag T was accepted, get_installed(T) is the reconstruction from the
\* committed entries the tag was put after, and it is still that after the next run,
\* whatever that run is, unless it is remove_tag T or add_tag T.
C20_SnapshotStability ==
    [][ \A T \in TagNames :
          last = ran("add_tag", Some(T), "none", "Added tag", 0) =>
             LET snapshot == get_packages_at_tag(SubSeq(committed, 1, Len(committed) - 1),
                                                 << >>, None)
             IN /\ get_packages_at_tag(committed, uncommitted, Some(T)) = snapshot
                /\ KeepsTag(T) =>
                      get_packages_at_tag(committed', uncommitted', Some(T)) = snapshot ]_vars

----------------------------------------------------------------------------
(* Killed runs, checked under SpecKill *)

\* The two logs as a run started now would load them.
Persisted ==
    [ committed |-> load_json_file(committed_file),
      uncommitted |-> load_json_file(uncommitted_file) ]

\* The two logs after the run of instance p, when it completes and its stamped entry
\* has the given date.
Completed(p, date) ==
    LET m == ims[p]
        r == get_package_manager_command(config, m.arg, "uninstall")
    IN
    IF m.command = "commit"
    THEN IF Len(m.loaded.uncommitted) = 0 THEN m.loaded
         ELSE [ committed |-> commit_committed(m.loaded.committed, m.loaded.uncommitted,
                                               date),
                uncommitted |-> << >> ]
    ELSE [ committed |-> Append(m.loaded.committed,
                                remove_entry(r.package_name, r.pm_name,
                                             r.pm_command \o <<r.package_name>>, date)),
           uncommitted |-> remove_uncommitted(m.loaded.uncommitted, 1, r.package_name,
                                              r.pm_name) ]

\* C16: when a commit or a remove is killed, at whatever statement of commit_packages
\* or remove_package, the two persisted logs are either both as the run loaded them
\* or both as the completed run leaves them.
C16_KilledRunIsAllOrNothing ==
    \A p \in DOMAIN ims :
       (/\ ims[p].pc = "killed"
        /\ ims[p].at \notin {"load_uncommitted", "load_committed"}
        /\ ims[p].command \in {"commit", "remove"}) =>
          \/ Persisted = ims[p].loaded
          \/ Persisted = Completed(p, clock)

----------------------------------------------------------------------------
(* Two runs at the same time, checked under SpecInstances *)

\* The list of instance p its install command appends to, when it was loaded, in
\* memory, and as it is persisted.
LoadedLog(p) ==
    IF ims[p].command = "install_commit" THEN ims[p].loaded.committed
    ELSE ims[p].loaded.uncommitted

MemoryLog(p) ==
    IF ims[p].command = "install_commit" THEN ims[p].committed ELSE ims[p].uncommitted

PersistedLog(p) ==
    IF ims[p].command = "install_commit" THEN Persisted.committed
    ELSE Persisted.uncommitted

\* Instance p has run an install command to its end, and it logged an entry.
Logged(p) ==
    /\ ims[p].pc = "done"
    /\ ims[p].command \in {"install", "install_commit"}
    /\ Len(MemoryLog(p)) > Len(LoadedLog(p))

\* The entry instance p logged.
Event(p) == MemoryLog(p)[Len(MemoryLog(p))]

Holds(log, e) == \E i \in 1..Len(log) : log[i] = e

\* C19: when two instances have each loaded the same log, each logged an install
\* to it and each saved, the persisted log is the in-memory list of one of them and
\* lacks the entry the other one wrote.
C19_LostUpdate ==
    \A p, q \in DOMAIN ims :
       (/\ p # q
        /\ Logged(p) /\ Logged(q)
        /\ ims[p].command = ims[q].command
        /\ LoadedLog(p) = LoadedLog(q)) =>
          /\ PersistedLog(p) \in {MemoryLog(p), MemoryLog(q)}
          /\ ~Holds(PersistedLog(p), Event(p)) \/ ~Holds(PersistedLog(p), Event(q))

\* C19 happens: two instances ran install_commit of different packages on the same
\* loaded log, both saved, and committed.json holds the entry of the second only.
C19_Witness ==
    /\ DOMAIN ims = {1, 2}
    /\ Logged(1) /\ Logged(2)
    /\ ims[1].command = "install_commit" /\ ims[2].command = "install_commit"
    /\ ims[1].arg # ims[2].arg
    /\ LoadedLog(1) = LoadedLog(2)
    /\ Holds(Persisted.committed, Event(2))
    /\ ~Holds(Persisted.committed, Event(1))

----------------------------------------------------------------------------
(* Completeness of the script, checked under Spec *)

\* The install entries of committed that no remove entry of their identity follows:
\* the packages installed according to committed alone.
InstalledByCommitted ==
    { i \in InstallPlaces(committed) :
        \A j \in (i + 1)..Len(committed) :
           ~(committed[j].action = "remove"
             /\ Identity(committed[j]) = Identity(committed[i])) }

\* C21: the script generated without a tag has a command line for every package that
\* is installed according to committed alone, also when uncommitted holds a pending
\* install of the same (manager, package) key.
C21_ScriptIsComplete ==
    Generated(None) =>
       \A i \in InstalledByCommitted :
          \E k \in 1..Len(script) : script[k] = script_line(committed[i])

====
